---------------------------- MODULE Spec2Model ----------------------------
(***************************************************************************)
(* A model of the two scripts of the repository:                           *)
(*   verification/split_yul_code.py   (find_matching_brace,                *)
(*       extract_code_sections, split_yul_code)                            *)
(*   circuits/benches/log_parsing/upa_log_parser.py   (parse_logs)         *)
(*                                                                         *)
(* Texts are sequences of one-character strings.  Offsets are Python       *)
(* offsets (0-based); -1 is the "not found" value of str.find and of       *)
(* find_matching_brace.  An optional value (a Python value that may be     *)
(* None) is a sequence of length 0 (None) or 1 (the value).                *)
(***************************************************************************)
EXTENDS Integers, Sequences, FiniteSets, TLC

VARIABLES
    \* split_yul_code
    yul_code,        \* the text read from the input file
    pc,              \* position in split_yul_code
    creation_code,   \* optional text: first component returned by extract_code_sections
    runtime_code,    \* optional text: second component
    locals,          \* optional record: the local offsets of the extract_code_sections call
    file1,           \* optional text: contents of output_filename1 (None: never opened)
    file2,           \* optional text: contents of output_filename2
    stdout,          \* sequence of printed messages
    \* find_matching_brace called on its own
    text, start_pos, match_pos, bpc,
    \* parse_logs
    current_circuit, \* optional record
    data,            \* sequence of rows
    nlines,          \* number of lines read so far
    nbegin,          \* number of lines read that matched a Begin pattern
    lpc,             \* position in parse_logs
    csv              \* optional sequence of rows: what write_to_csv received

yulVars == <<yul_code, pc, creation_code, runtime_code, locals, file1, file2, stdout>>
braceVars == <<text, start_pos, match_pos, bpc>>
logVars == <<current_circuit, data, nlines, nbegin, lpc, csv>>
vars == <<yulVars, braceVars, logVars>>

-----------------------------------------------------------------------------
(* Bounds of the model *)

\* greatest number of fragments concatenated into an input of split_yul_code
MaxFrags == 6
\* greatest length of a text handed to find_matching_brace on its own
MaxLen == 6
\* greatest number of log lines parse_logs reads
MaxLines == 4

-----------------------------------------------------------------------------
(* Python values and string operations *)

None == <<>>
Some(v) == <<v>>

\* text[i] with a Python offset
At(t, i) == t[i + 1]

\* text[s:e] for 0 <= s <= e <= len(text)
Slice(t, s, e) == SubSeq(t, s + 1, e)

Min(S) == CHOOSE m \in S : \A n \in S : m <= n

\* str.find(sub, start): the least offset >= start at which sub occurs, or -1
Find(t, sub, start) ==
    LET hits == {i \in start..(Len(t) - Len(sub)) :
                    \A k \in 1..Len(sub) : t[i + k] = sub[k]}
    IN  IF hits = {} THEN -1 ELSE Min(hits)

\* the characters str.strip() removes
Whitespace == {" ", "\n", "\t", "\r", "\f"}

RECURSIVE lstrip(_)
lstrip(t) ==
    IF t # <<>> /\ Head(t) \in Whitespace THEN lstrip(Tail(t)) ELSE t

RECURSIVE rstrip(_)
rstrip(t) ==
    IF t # <<>> /\ t[Len(t)] \in Whitespace THEN rstrip(SubSeq(t, 1, Len(t) - 1)) ELSE t

\* str.strip()
strip(t) == rstrip(lstrip(t))

\* number of occurrences of the character c in t
Count(t, c) == Cardinality({i \in 1..Len(t) : t[i] = c})

-----------------------------------------------------------------------------
(* String literals of split_yul_code.py *)

PlonkAnchor ==
    <<"o", "b", "j", "e", "c", "t", " ", "\"", "p", "l", "o", "n", "k", "_",
      "v", "e", "r", "i", "f", "i", "e", "r", "\"", " ", "{">>
RuntimeAnchor ==
    <<"o", "b", "j", "e", "c", "t", " ", "\"", "R", "u", "n", "t", "i", "m",
      "e", "\"", " ", "{">>
CodeToken == <<"c", "o", "d", "e", " ", "{">>
CodeWord == <<"c", "o", "d", "e">>
\* '\n    code {'
CodeOpen == <<"\n", " ", " ", " ", " ", "c", "o", "d", "e", " ", "{">>
\* '\n    }\n}'
WrapperClose == <<"\n", " ", " ", " ", " ", "}", "\n", "}">>
\* "\n}"
ClosingBrace == <<"\n", "}">>
MismatchMessage == "The Yul code structure does not match the expected pattern."
SuccessMessage == "Code sections successfully written"

-----------------------------------------------------------------------------
(* find_matching_brace *)

\* the for loop of find_matching_brace, at offset pos with counter open_braces
RECURSIVE brace_loop(_, _, _)
brace_loop(t, pos, open_braces) ==
    IF pos >= Len(t) THEN -1
    ELSE IF At(t, pos) = "{" THEN brace_loop(t, pos + 1, open_braces + 1)
    ELSE IF At(t, pos) = "}" THEN
        IF open_braces - 1 = 0 THEN pos
        ELSE brace_loop(t, pos + 1, open_braces - 1)
    ELSE brace_loop(t, pos + 1, open_braces)

\* the first closing brace from start on, whatever the depth
first_closing_brace(t, start) == Find(t, <<"}">>, start)

find_matching_brace(t, start) == brace_loop(t, start, 0)

-----------------------------------------------------------------------------
(* extract_code_sections *)

\* the value of extract_code_sections: the returned pair, the local offsets
\* assigned before the return, and the start_pos of each find_matching_brace call
Returned(cc, rc, offs, calls) == [ret |-> <<cc, rc>>, locals |-> offs, calls |-> calls]

\* extract_runtime keeping the creation section when the Runtime block is not closed
extract_runtime_partial(yc, creation_start, creation_code_start, creation_code_end) ==
    LET runtime_start == Find(yc, RuntimeAnchor, creation_code_end)
        found_code == Find(yc, CodeToken, runtime_start)
        runtime_code_start == found_code + Len(CodeWord)
        runtime_code_end == find_matching_brace(yc, runtime_code_start)
        offs1 == [creation_start |-> creation_start,
                  creation_code_start |-> creation_code_start,
                  creation_code_end |-> creation_code_end,
                  runtime_start |-> runtime_start]
        offs2 == [creation_start |-> creation_start,
                  creation_code_start |-> creation_code_start,
                  creation_code_end |-> creation_code_end,
                  runtime_start |-> runtime_start,
                  runtime_code_start |-> runtime_code_start,
                  runtime_code_end |-> runtime_code_end]
    IN  IF runtime_start = -1 THEN
            Returned(None, None, offs1, <<creation_code_start>>)
        ELSE IF found_code = -1 THEN
            Returned(None, None, offs1, <<creation_code_start>>)
        ELSE IF runtime_code_end = -1 THEN
            Returned(Some(strip(Slice(yc, creation_code_start, creation_code_end))),
                     None, offs2, <<creation_code_start, runtime_code_start>>)
        ELSE
            Returned(Some(strip(Slice(yc, creation_code_start, creation_code_end))),
                     Some(strip(Slice(yc, runtime_code_start, runtime_code_end))),
                     offs2, <<creation_code_start, runtime_code_start>>)

\* extract_runtime searching for the Runtime anchor from the creation anchor on
extract_runtime_from_anchor(yc, creation_start, creation_code_start, creation_code_end) ==
    LET runtime_start == Find(yc, RuntimeAnchor, creation_start)
        found_code == Find(yc, CodeToken, runtime_start)
        runtime_code_start == found_code + Len(CodeWord)
        runtime_code_end == find_matching_brace(yc, runtime_code_start)
        offs1 == [creation_start |-> creation_start,
                  creation_code_start |-> creation_code_start,
                  creation_code_end |-> creation_code_end,
                  runtime_start |-> runtime_start]
        offs2 == [creation_start |-> creation_start,
                  creation_code_start |-> creation_code_start,
                  creation_code_end |-> creation_code_end,
                  runtime_start |-> runtime_start,
                  runtime_code_start |-> runtime_code_start,
                  runtime_code_end |-> runtime_code_end]
    IN  IF runtime_start = -1 THEN
            Returned(None, None, offs1, <<creation_code_start>>)
        ELSE IF found_code = -1 THEN
            Returned(None, None, offs1, <<creation_code_start>>)
        ELSE IF runtime_code_end = -1 THEN
            Returned(None, None, offs2, <<creation_code_start, runtime_code_start>>)
        ELSE
            Returned(Some(strip(Slice(yc, creation_code_start, creation_code_end))),
                     Some(strip(Slice(yc, runtime_code_start, runtime_code_end))),
                     offs2, <<creation_code_start, runtime_code_start>>)

\* lines 50-66: from the Runtime anchor on
extract_runtime(yc, creation_start, creation_code_start, creation_code_end) ==
    LET runtime_start == Find(yc, RuntimeAnchor, creation_code_end)
        found_code == Find(yc, CodeToken, runtime_start)
        runtime_code_start == found_code + Len(CodeWord)
        runtime_code_end == find_matching_brace(yc, runtime_code_start)
        offs1 == [creation_start |-> creation_start,
                  creation_code_start |-> creation_code_start,
                  creation_code_end |-> creation_code_end,
                  runtime_start |-> runtime_start]
        offs2 == [creation_start |-> creation_start,
                  creation_code_start |-> creation_code_start,
                  creation_code_end |-> creation_code_end,
                  runtime_start |-> runtime_start,
                  runtime_code_start |-> runtime_code_start,
                  runtime_code_end |-> runtime_code_end]
    IN  IF runtime_start = -1 THEN
            Returned(None, None, offs1, <<creation_code_start>>)
        ELSE IF found_code = -1 THEN
            Returned(None, None, offs1, <<creation_code_start>>)
        ELSE IF runtime_code_end = -1 THEN
            Returned(None, None, offs2, <<creation_code_start, runtime_code_start>>)
        ELSE
            Returned(Some(strip(Slice(yc, creation_code_start, creation_code_end))),
                     Some(strip(Slice(yc, runtime_code_start, runtime_code_end))),
                     offs2, <<creation_code_start, runtime_code_start>>)

\* lines 37-48, then extract_runtime
extract_code_sections(yc) ==
    LET creation_start == Find(yc, PlonkAnchor, 0)
        found_code == Find(yc, CodeToken, creation_start)
        creation_code_start == found_code + Len(CodeWord)
        creation_code_end == find_matching_brace(yc, creation_code_start)
    IN  IF creation_start = -1 THEN
            Returned(None, None, [creation_start |-> creation_start], <<>>)
        ELSE IF found_code = -1 THEN
            Returned(None, None, [creation_start |-> creation_start], <<>>)
        ELSE IF creation_code_end = -1 THEN
            Returned(None, None,
                     [creation_start |-> creation_start,
                      creation_code_start |-> creation_code_start,
                      creation_code_end |-> creation_code_end],
                     <<creation_code_start>>)
        ELSE extract_runtime(yc, creation_start, creation_code_start, creation_code_end)

-----------------------------------------------------------------------------
(* split_yul_code *)

\* line 87: f'object "plonk_verifier" {{\n    code {{{creation_code}\n    }}\n}}'
output_code1(cc) == PlonkAnchor \o CodeOpen \o cc \o WrapperClose

\* line 88 without the closing brace of the code block
output_code2_unclosed(rc) == RuntimeAnchor \o CodeOpen \o rc \o ClosingBrace

\* line 88: f'object "Runtime" {{\n    code {{{runtime_code}\n    }}\n}}'
output_code2(rc) == RuntimeAnchor \o CodeOpen \o rc \o WrapperClose

\* what file.write would receive without the appended closing brace
written_plain(output_code) == output_code

\* lines 92 and 95: what file.write receives
written(output_code) == output_code \o ClosingBrace

\* inputs: concatenations of at most MaxFrags fragments (the three tokens, each
\* of which opens a brace, a closing brace and other text), texts of the
\* expected structure, and worked examples
Fragments == {PlonkAnchor, RuntimeAnchor, CodeToken, <<"}">>, <<" ", "x", " ">>}

RECURSIVE Concat(_)
Concat(fs) == IF fs = <<>> THEN <<>> ELSE Head(fs) \o Concat(Tail(fs))

Sp == <<" ">>
Open == <<"{">>
Close == <<"}">>
Mstore == <<"M", "S", "T", "O", "R", "E", "(", "0", ",", "1", ")">>
Return == <<"R", "E", "T", "U", "R", "N", "(", "0", ",", "0", ")">>
IfEq == <<"i", "f", " ", "e", "q", "(", "x", ",", "1", ")">>
Sstore == <<"s", "s", "t", "o", "r", "e", "(", "0", ",", "1", ")">>

\* object "plonk_verifier" { code { MSTORE(0,1) } } object "Runtime" { code { RETURN(0,0) } }
ScenarioFlat ==
    Concat(<<PlonkAnchor, Sp, CodeToken, Sp, Mstore, Sp, Close, Sp, Close, Sp,
             RuntimeAnchor, Sp, CodeToken, Sp, Return, Sp, Close, Sp, Close>>)

\* object "plonk_verifier" { code { if eq(x,1) { sstore(0,1) } } object "Runtime" { code { RETURN(0,0) } } }
ScenarioNested ==
    Concat(<<PlonkAnchor, Sp, CodeToken, Sp, IfEq, Sp, Open, Sp, Sstore, Sp, Close,
             Sp, Close, Sp, RuntimeAnchor, Sp, CodeToken, Sp, Return, Sp, Close, Sp,
             Close, Sp, Close>>)

\* the Runtime anchor occurs only inside the creation code block
ScenarioRuntimeInside ==
    Concat(<<PlonkAnchor, Sp, CodeToken, Sp, RuntimeAnchor, Sp, CodeToken, Sp,
             Return, Sp, Close, Sp, Close, Sp, Close, Sp, Close>>)

\* the Runtime anchor occurs inside the creation code block and again after it
ScenarioRuntimeTwice ==
    Concat(<<PlonkAnchor, Sp, CodeToken, Sp, RuntimeAnchor, Sp, CodeToken, Sp,
             Return, Sp, Close, Sp, Close, Sp, Close, Sp,
             RuntimeAnchor, Sp, CodeToken, Sp, Mstore, Sp, Close, Sp, Close, Sp, Close>>)

\* the creation code block is never closed
ScenarioTruncated ==
    Concat(<<PlonkAnchor, Sp, CodeToken, Sp, Mstore, Sp, Open, Sp, Close>>)

Scenarios == {ScenarioFlat, ScenarioNested, ScenarioRuntimeInside,
              ScenarioRuntimeTwice, ScenarioTruncated}

\* the expected structure with every choice of text between its tokens and
\* of text inside its two code blocks
Gaps == {<<>>, Sp, Close, CodeToken}
Bodies == {<<>>, <<" ", "x", " ">>, <<"{", " ", "}", " ">>, RuntimeAnchor \o Close, Close}
Structured ==
    {Concat(<<PlonkAnchor, g[1], CodeToken, b[1], Close, g[2],
              RuntimeAnchor, g[3], CodeToken, b[2], Close>>) :
        g \in [1..3 -> Gaps], b \in [1..2 -> Bodies]}

YulInputs ==
    {Concat(fs) : fs \in UNION {[1..n -> Fragments] : n \in 0..MaxFrags}}
        \cup Structured \cup Scenarios

\* line 81
Extract ==
    /\ pc = "start"
    /\ LET r == extract_code_sections(yul_code)
       IN  /\ creation_code' = r.ret[1]
           /\ runtime_code' = r.ret[2]
           /\ locals' = Some([offs |-> r.locals, calls |-> r.calls])
    /\ pc' = "extracted"
    /\ UNCHANGED <<yul_code, file1, file2, stdout, braceVars, logVars>>

\* the mismatch return taken after output_filename1 was opened for writing
Mismatch_after_open ==
    /\ pc = "extracted"
    /\ creation_code = None \/ runtime_code = None
    /\ file1' = Some(<<>>)
    /\ stdout' = Append(stdout, MismatchMessage)
    /\ pc' = "returned"
    /\ UNCHANGED <<yul_code, creation_code, runtime_code, locals, file2,
                   braceVars, logVars>>

\* lines 82-84
Mismatch ==
    /\ pc = "extracted"
    /\ creation_code = None \/ runtime_code = None
    /\ stdout' = Append(stdout, MismatchMessage)
    /\ pc' = "returned"
    /\ UNCHANGED <<yul_code, creation_code, runtime_code, locals, file1, file2,
                   braceVars, logVars>>

\* lines 87, 91-92
WriteFile1 ==
    /\ pc = "extracted"
    /\ ~(creation_code = None \/ runtime_code = None)
    /\ file1' = Some(written(output_code1(creation_code[1])))
    /\ pc' = "wrote1"
    /\ UNCHANGED <<yul_code, creation_code, runtime_code, locals, file2, stdout,
                   braceVars, logVars>>

\* lines 88, 94-95
WriteFile2 ==
    /\ pc = "wrote1"
    /\ file2' = Some(written(output_code2(runtime_code[1])))
    /\ pc' = "wrote2"
    /\ UNCHANGED <<yul_code, creation_code, runtime_code, locals, file1, stdout,
                   braceVars, logVars>>

\* line 97
PrintSuccess ==
    /\ pc = "wrote2"
    /\ stdout' = Append(stdout, SuccessMessage)
    /\ pc' = "returned"
    /\ UNCHANGED <<yul_code, creation_code, runtime_code, locals, file1, file2,
                   braceVars, logVars>>

YulIdle ==
    /\ yul_code = <<>> /\ pc = "idle" /\ creation_code = None /\ runtime_code = None
    /\ locals = None /\ file1 = None /\ file2 = None /\ stdout = <<>>

BraceIdle == text = <<>> /\ start_pos = 0 /\ match_pos = None /\ bpc = "idle"

LogIdle ==
    /\ current_circuit = None /\ data = <<>> /\ nlines = 0 /\ nbegin = 0
    /\ lpc = "idle" /\ csv = None

\* split_yul_code is called on an input file; no output file has been opened
Init ==
    /\ yul_code \in YulInputs
    /\ pc = "start"
    /\ creation_code = None /\ runtime_code = None /\ locals = None
    /\ file1 = None /\ file2 = None /\ stdout = <<>>
    /\ BraceIdle /\ LogIdle

Next == Extract \/ Mismatch \/ WriteFile1 \/ WriteFile2 \/ PrintSuccess

Spec == Init /\ [][Next]_vars

-----------------------------------------------------------------------------
(* find_matching_brace on its own: every text over a three-letter alphabet  *)
(* of length at most MaxLen, every start offset                              *)

BraceAlphabet == {"{", "}", "x"}
BraceTexts == UNION {[1..n -> BraceAlphabet] : n \in 0..MaxLen}

InitBrace ==
    /\ text \in BraceTexts
    /\ start_pos \in 0..Len(text)
    /\ match_pos = None
    /\ bpc = "call"
    /\ YulIdle /\ LogIdle

CallMatcher ==
    /\ bpc = "call"
    /\ match_pos' = Some(find_matching_brace(text, start_pos))
    /\ bpc' = "returned"
    /\ UNCHANGED <<text, start_pos, yulVars, logVars>>

NextBrace == CallMatcher

SpecBrace == InitBrace /\ [][NextBrace]_vars

-----------------------------------------------------------------------------
(* parse_logs *)

\* A log line (after line.strip()) is described by what the patterns of
\* lines 6-19 find in it: which Begin pattern matches it and with which
\* configuration, which of the five quantity patterns of lines 13-17 is found
\* in it (at most one per line, and none in a Begin line), and the groups captured by the 'Time:' and
\* 'Gas cost per proof:' patterns ("" when the pattern is not found; a
\* captured group is never empty).  Batch sizes are rewritten for Keccak alone
\* (line 34), so the other lines carry the configuration without them.
CircuitNames == {"UBV", "Keccak", "UniversalOuter"}
Quantities == {"num_advice_cells", "num_lookup_cells", "num_advice_columns",
               "num_lookup_advice_columns", "num_fixed_columns"}
\* a configuration without batch sizes, and one holding
\* 'inner_batch_size: 2, outer_batch_size: 3'
OtherConfig == [kind |-> "other"]
BatchConfig == [kind |-> "batch", inner |-> 2, outer |-> 3]
Configs == {OtherConfig, BatchConfig}

Lines ==
    {l \in [begin : CircuitNames \cup {"none"}, config : Configs,
            quantity : Quantities \cup {"none"}, time : {"", "1.5"}, gas : {"", "21000"}] :
        /\ l.begin # "Keccak" => l.config = OtherConfig
        /\ l.begin # "none" => l.quantity = "none"}

\* lines 32-43: the configuration stored for a Begin line
stored_config(circuit_name, config) ==
    IF circuit_name = "Keccak" /\ config.kind = "batch"
    THEN [kind |-> "total", total |-> config.inner * config.outer]
    ELSE config

\* lines 45-55
new_circuit(circuit_name, config) ==
    [circuit_name |-> circuit_name,
     configuration |-> stored_config(circuit_name, config),
     num_advice_cells |-> "", num_lookup_cells |-> "", num_advice_columns |-> "",
     num_lookup_advice_columns |-> "", num_fixed_columns |-> "",
     proving_time |-> "", gas_cost |-> ""]

\* lines 59-68: the quantity patterns store the captured group ("7" stands for it)
with_quantity(c, quantity) ==
    IF quantity = "none" THEN c ELSE [c EXCEPT ![quantity] = "7"]

\* the 'Time:' pattern appending the section without resetting current_circuit
after_time_keeps_open(c, dat, l) ==
    LET c1 == IF l.time # "" THEN [c EXCEPT !.proving_time = l.time] ELSE c
        closes == l.time # "" /\ c1.circuit_name # "UniversalOuter"
    IN  [cc |-> Some(c1),
         data |-> IF closes THEN Append(dat, c1) ELSE dat]

\* lines 69-74: the 'Time:' pattern
after_time(c, dat, l) ==
    LET c1 == IF l.time # "" THEN [c EXCEPT !.proving_time = l.time] ELSE c
        closes == l.time # "" /\ c1.circuit_name # "UniversalOuter"
    IN  [cc |-> IF closes THEN None ELSE Some(c1),
         data |-> IF closes THEN Append(dat, c1) ELSE dat]

\* lines 75-80: the 'Gas cost per proof:' pattern; subscripting None raises TypeError
after_gas(cc, dat, l) ==
    IF l.gas = "" THEN [cc |-> cc, data |-> dat, raised |-> FALSE]
    ELSE IF cc = None THEN [cc |-> cc, data |-> dat, raised |-> TRUE]
    ELSE LET c1 == [cc[1] EXCEPT !.gas_cost = l.gas]
             closes == c1.circuit_name = "UniversalOuter"
         IN  [cc |-> IF closes THEN None ELSE Some(c1),
              data |-> IF closes THEN Append(dat, c1) ELSE dat,
              raised |-> FALSE]

\* lines 27-80: one iteration of the loop over the lines of the file
process_line(cc, dat, l) ==
    LET started == IF l.begin # "none"
                   THEN Some(new_circuit(l.begin, l.config)) ELSE cc
    IN  IF started = None THEN [cc |-> started, data |-> dat, raised |-> FALSE]
        ELSE LET t == after_time(with_quantity(started[1], l.quantity), dat, l)
             IN  after_gas(t.cc, t.data, l)

InitLogs ==
    /\ current_circuit = None
    /\ data = <<>>
    /\ nlines = 0 /\ nbegin = 0
    /\ lpc = "reading"
    /\ csv = None
    /\ YulIdle /\ BraceIdle

\* lines 26-80: the loop reads one more line
ReadLine ==
    /\ lpc = "reading"
    /\ nlines < MaxLines
    /\ \E l \in Lines :
        LET r == process_line(current_circuit, data, l)
        IN  /\ current_circuit' = r.cc
            /\ data' = r.data
            /\ lpc' = IF r.raised THEN "raised" ELSE "reading"
            /\ nbegin' = IF l.begin # "none" THEN nbegin + 1 ELSE nbegin
    /\ nlines' = nlines + 1
    /\ UNCHANGED <<csv, yulVars, braceVars>>

\* lines 81-83: the end of the file; write_to_csv receives data
EndOfInput ==
    /\ lpc = "reading"
    /\ csv' = Some(data)
    /\ lpc' = "done"
    /\ UNCHANGED <<current_circuit, data, nlines, nbegin, yulVars, braceVars>>

NextLogs == ReadLine \/ EndOfInput

SpecLogs == InitLogs /\ [][NextLogs]_vars

-----------------------------------------------------------------------------
(* Vocabulary of the properties, stated without the operators above *)

\* sub occurs in t at offset i
Occurs(t, sub, i) ==
    /\ i >= 0 /\ i + Len(sub) <= Len(t)
    /\ \A k \in 1..Len(sub) : t[i + k] = sub[k]

\* the first offset >= from at which sub occurs, or -1
FirstOccurrence(t, sub, from) ==
    IF \E i \in from..Len(t) : Occurs(t, sub, i)
    THEN CHOOSE i \in from..Len(t) :
            Occurs(t, sub, i) /\ \A j \in from..(i - 1) : ~Occurs(t, sub, j)
    ELSE -1

\* t[o..p] holds as many '{' as '}'
Level(t, o, p) == Count(Slice(t, o, p + 1), "{") = Count(Slice(t, o, p + 1), "}")

\* the closing brace matching the opening brace at offset o, or -1
MatchingClose(t, o) ==
    LET closers == {p \in (o + 1)..(Len(t) - 1) : At(t, p) = "}" /\ Level(t, o, p)}
    IN  IF closers = {} THEN -1
        ELSE CHOOSE p \in closers : \A q \in closers : p <= q

Balanced(t) == Count(t, "{") = Count(t, "}")

\* the required elements of an input, in the order extract_code_sections looks
\* for them (-1: missing, or not looked for because an earlier one is missing);
\* brace1 and brace2 are the opening braces of the 'code {' tokens
Elements(t) ==
    LET a1 == FirstOccurrence(t, PlonkAnchor, 0)
        c1 == IF a1 = -1 THEN -1 ELSE FirstOccurrence(t, CodeToken, a1)
        b1 == IF c1 = -1 THEN -1 ELSE c1 + Len(CodeToken) - 1
        e1 == IF b1 = -1 THEN -1 ELSE MatchingClose(t, b1)
        a2 == IF e1 = -1 THEN -1 ELSE FirstOccurrence(t, RuntimeAnchor, e1)
        c2 == IF a2 = -1 THEN -1 ELSE FirstOccurrence(t, CodeToken, a2)
        b2 == IF c2 = -1 THEN -1 ELSE c2 + Len(CodeToken) - 1
        e2 == IF b2 = -1 THEN -1 ELSE MatchingClose(t, b2)
    IN  [anchor1 |-> a1, brace1 |-> b1, close1 |-> e1,
         anchor2 |-> a2, brace2 |-> b2, close2 |-> e2]
Anchor1(t) == Elements(t).anchor1
Brace1(t) == Elements(t).brace1
Close1(t) == Elements(t).close1
Anchor2(t) == Elements(t).anchor2
Brace2(t) == Elements(t).brace2
Close2(t) == Elements(t).close2

\* both anchors present, each followed by a correctly nested 'code { ... }' block
WellFormed(t) == Close2(t) # -1

Extracted == pc # "start"
Succeeded == Extracted /\ creation_code # None /\ runtime_code # None

-----------------------------------------------------------------------------
(* C1 *)

\* C1: on success each returned section is the text strictly between the
\* opening brace of the located 'code {' token and its matching closing brace,
\* trimmed; for the flat example the sections are MSTORE(0,1) and RETURN(0,0).
C1_SectionsBetweenBraces ==
    Succeeded =>
        /\ creation_code = Some(strip(Slice(yul_code, Brace1(yul_code) + 1, Close1(yul_code))))
        /\ runtime_code = Some(strip(Slice(yul_code, Brace2(yul_code) + 1, Close2(yul_code))))
        /\ yul_code = ScenarioFlat =>
              creation_code = Some(Mstore) /\ runtime_code = Some(Return)

-----------------------------------------------------------------------------
(* C2, under SpecBrace *)

\* C2: called at an opening brace, find_matching_brace returns the least later
\* offset of a '}' at which the braces since the opening one are level, and -1
\* exactly when there is none.
C2_MatchingBrace ==
    (bpc = "returned" /\ start_pos < Len(text) /\ At(text, start_pos) = "{") =>
        match_pos = Some(MatchingClose(text, start_pos))

\* an inner group was skipped: a '}' lies between the opening brace and the match
C2_Witness ==
    /\ bpc = "returned" /\ start_pos < Len(text) /\ At(text, start_pos) = "{"
    /\ match_pos # None /\ match_pos[1] # -1
    /\ \E q \in (start_pos + 1)..(match_pos[1] - 1) : At(text, q) = "}"

\* a text with an opening brace that nothing closes
C2_WitnessNoMatch ==
    /\ bpc = "returned" /\ start_pos < Len(text) /\ At(text, start_pos) = "{"
    /\ match_pos = Some(-1)
    /\ \E q \in (start_pos + 1)..(Len(text) - 1) : At(text, q) = "}"

-----------------------------------------------------------------------------
(* C3 *)

\* C3: for a well-formed input both returned strings are non-empty and hold as
\* many '{' as '}'.
C3_SectionsBalanced ==
    (Extracted /\ WellFormed(yul_code)) =>
        /\ creation_code # None /\ runtime_code # None
        /\ creation_code[1] # <<>> /\ runtime_code[1] # <<>>
        /\ Balanced(creation_code[1]) /\ Balanced(runtime_code[1])

-----------------------------------------------------------------------------
(* C4 *)

\* C4: when a required element is missing (an anchor, a 'code {' token or the
\* closing brace of a code block) the result is (None, None), and no result has
\* exactly one component None.
C4_NoPartialExtraction ==
    Extracted =>
        /\ (creation_code = None) <=> (runtime_code = None)
        /\ ~WellFormed(yul_code) => creation_code = None /\ runtime_code = None

\* the creation block is found and closed, the Runtime block is opened and never closed
C4_Witness ==
    /\ Extracted /\ creation_code = None /\ runtime_code = None
    /\ Brace2(yul_code) # -1 /\ Close2(yul_code) = -1

-----------------------------------------------------------------------------
(* C5 *)

\* C5: after a structural mismatch neither output file is opened, at any point
\* up to the return, and the diagnostic is what was printed at the return.
C5_MismatchWritesNothing ==
    (Extracted /\ (creation_code = None \/ runtime_code = None)) =>
        /\ file1 = None /\ file2 = None
        /\ pc \in {"extracted", "returned"}
        /\ pc = "returned" => stdout = <<MismatchMessage>>

C5_Witness ==
    /\ pc = "returned" /\ creation_code = None
    /\ Anchor1(yul_code) = -1
    /\ stdout = <<MismatchMessage>>

-----------------------------------------------------------------------------
(* C6 *)

\* C6: on success the offsets are ordered creation anchor <= creation code
\* start < creation code end <= runtime anchor < runtime code start < runtime
\* code end; and when the Runtime anchor does not occur at or after the end of
\* the creation section the extraction fails.
C6_RuntimeAfterCreation ==
    /\ Succeeded =>
        LET o == locals[1].offs
        IN  /\ o.creation_start <= o.creation_code_start
            /\ o.creation_code_start < o.creation_code_end
            /\ o.creation_code_end <= o.runtime_start
            /\ o.runtime_start < o.runtime_code_start
            /\ o.runtime_code_start < o.runtime_code_end
            /\ Occurs(yul_code, RuntimeAnchor, o.runtime_start)
    /\ (Extracted /\ Close1(yul_code) # -1
            /\ ~\E i \in Close1(yul_code)..Len(yul_code) : Occurs(yul_code, RuntimeAnchor, i))
        => creation_code = None /\ runtime_code = None

\* success on an input whose first Runtime anchor lies inside the creation block
C6_Witness ==
    /\ Succeeded
    /\ FirstOccurrence(yul_code, RuntimeAnchor, 0) < locals[1].offs.creation_code_end
    /\ locals[1].offs.runtime_start > locals[1].offs.creation_code_end

\* failure on an input whose only Runtime anchor lies inside the creation block
C6_WitnessOnlyInside ==
    /\ Extracted /\ creation_code = None /\ Close1(yul_code) # -1
    /\ FirstOccurrence(yul_code, RuntimeAnchor, 0) \in 0..Close1(yul_code)
    /\ FirstOccurrence(yul_code, RuntimeAnchor, Close1(yul_code)) = -1

-----------------------------------------------------------------------------
(* C7 *)

-----------------------------------------------------------------------------
(* C8 *)

\* what was written without the appended closing brace
WithoutAppended(f) == SubSeq(f, 1, Len(f) - Len(ClosingBrace))

\* find_matching_brace at the first opening brace of f returns the last offset of f
MatchesAtEnd(f) == find_matching_brace(f, FirstOccurrence(f, Open, 0)) = Len(f) - 1

-----------------------------------------------------------------------------
(* C9 *)

\* C9: at each call of find_matching_brace by extract_code_sections the
\* character at start_pos is an opening brace.
C9_StartPosIsOpeningBrace ==
    Extracted =>
        \A i \in 1..Len(locals[1].calls) : At(yul_code, locals[1].calls[i]) = "{"

-----------------------------------------------------------------------------
(* C10, under SpecLogs *)

\* C10: parse_logs never reads or writes a field of current_circuit while it
\* is None, so it raises on no sequence of lines.
C10_NeverSubscriptsNone == lpc # "raised"

-----------------------------------------------------------------------------
(* C11, under SpecLogs *)

\* 1 while a section is open, 0 otherwise
OpenSections == IF current_circuit = None THEN 0 ELSE 1

\* the field whose pattern ends a section of the circuit of row
ClosingField(row) ==
    IF row.circuit_name = "UniversalOuter" THEN row.gas_cost ELSE row.proving_time

\* every Begin line read accounts for at most one row or for the open section;
\* an open section has not met the line that ends it; what write_to_csv
\* receives is the rows appended, the open section left out
C11_RowsInvariant ==
    /\ Len(data) + OpenSections <= nbegin
    /\ current_circuit # None => ClosingField(current_circuit[1]) = ""
    /\ \A i \in 1..Len(data) : ClosingField(data[i]) # ""
    /\ lpc = "done" => csv = Some(data) /\ Len(csv[1]) <= nbegin - OpenSections

\* one line appends at most one row, leaves the rows before it as they are and
\* closes the section it appends; a line that is no Begin line and is read
\* while no section is open changes nothing but the count of lines
C11_RowsStep ==
    /\ \/ data' = data
       \/ /\ Len(data') = Len(data) + 1
          /\ SubSeq(data', 1, Len(data)) = data
          /\ current_circuit' = None
          /\ current_circuit # None \/ nbegin' = nbegin + 1
    /\ (current_circuit = None /\ nbegin' = nbegin) =>
          data' = data /\ current_circuit' = None

\* C11: whenever parse_logs completes, each Begin line has contributed at most
\* one row: a section is appended once, at the first line that ends it ('Time:'
\* for UBV and Keccak, 'Gas cost per proof:' for UniversalOuter); a section
\* open at the next Begin line or at the end of input gives no row; lines read
\* while no section is open change no row; so the rows written never
\* outnumber the Begin lines read.
C11_AtMostOneRowPerBegin == [](lpc # "raised" => C11_RowsInvariant) /\ [][C11_RowsStep]_vars

\* completed after three Begin lines: one section replaced while open, one
\* appended, one open at the end of input; a single row is written
C11_Witness ==
    /\ lpc = "done" /\ nbegin = 3 /\ current_circuit # None
    /\ Len(csv[1]) = 1

=============================================================================
